---- MODULE Spec2Model ----
(***************************************************************************)
(* Model of the parser-combinator library of src/index.ts.                 *)
(*                                                                         *)
(* A parser is a tree of combinators, parse is a pure recursive            *)
(* evaluation of that tree over an untyped JavaScript value.  Parse below  *)
(* evaluates the tree the way the classes' parse methods do and returns,   *)
(* next to the ParseResult, the list of parse methods and input callables  *)
(* it invoked, in invocation order, so that "is applied to", "is never     *)
(* invoked" and "in index order" are statements about a value.             *)
(***************************************************************************)
EXTENDS Integers, Sequences, FiniteSets, TLC

(***************************************************************************)
(* Bounds of the model.                                                    *)
(***************************************************************************)
\* longest array given to parseArray
MaxLen == 3
\* most arguments passed to a wrapped callable
MaxArgs == 1

(***************************************************************************)
(* JavaScript values.  Every value is a record of the same shape:          *)
(*   t     the kind of value                                               *)
(*   n     the number, for a number                                        *)
(*   s     the string, for a string; the name of the body, for a function  *)
(*   keys  the own keys in insertion order, for an object                  *)
(*   items the elements of an array, the property values of an object (in  *)
(*         the order of keys), the wrapped callable of a closure           *)
(*   clo   the parser captured by the closure that                         *)
(*         TransformFunctionResult.parse returns                           *)
(***************************************************************************)
Val(t, n, s, keys, items, clo) ==
    [t |-> t, n |-> n, s |-> s, keys |-> keys, items |-> items, clo |-> clo]

Null == Val("null", 0, "", <<>>, <<>>, <<>>)
Undef == Val("undefined", 0, "", <<>>, <<>>, <<>>)
Num(n) == Val("number", n, "", <<>>, <<>>, <<>>)
Str(s) == Val("string", 0, s, <<>>, <<>>, <<>>)
Arr(items) == Val("array", 0, "", <<>>, items, <<>>)
Obj(keys, items) == Val("object", 0, "", keys, items, <<>>)
Fn(name) == Val("function", 0, name, <<>>, <<>>, <<>>)
\* (...xs) => p.parse(input(...xs)), the arrow function of line 180
Closure(p, input) == Val("function", 0, "=>", <<>>, <<input>>, <<p>>)

\* the typeof operator
Typeof(x) ==
    CASE x.t = "null" -> "object"
      [] x.t = "undefined" -> "undefined"
      [] x.t = "number" -> "number"
      [] x.t = "string" -> "string"
      [] x.t = "array" -> "object"
      [] x.t = "object" -> "object"
      [] x.t = "function" -> "function"

\* Array.isArray
IsArray(x) == x.t = "array"

\* position of key k in the key list ks, 0 when absent
RECURSIVE IndexOf(_, _)
IndexOf(ks, k) ==
    IF ks = <<>> THEN 0
    ELSE IF ks[Len(ks)] = k THEN Len(ks)
    ELSE IndexOf(SubSeq(ks, 1, Len(ks) - 1), k)

\* can x[k] be evaluated: property access on null or undefined is a TypeError
CanGet(x) == x.t \notin {"null", "undefined"}

\* x[k] for a key k that no prototype defines and that is not an array index
Get(x, k) ==
    IF x.t = "object" /\ IndexOf(x.keys, k) # 0
    THEN x.items[IndexOf(x.keys, k)]
    ELSE Undef

\* res[k] = v on an object
Put(o, k, v) ==
    IF IndexOf(o.keys, k) # 0
    THEN Obj(o.keys, [o.items EXCEPT ![IndexOf(o.keys, k)] = v])
    ELSE Obj(Append(o.keys, k), Append(o.items, v))

(***************************************************************************)
(* The result model.                                                       *)
(***************************************************************************)
\* a PathElement: number | string
Idx(i) == [k |-> "index", i |-> i, s |-> ""]
Key(s) == [k |-> "key", i |-> 0, s |-> s]

\* new ParseError(path, error)
ParseError(path, error) == [path |-> path, error |-> error]

\* ParseError.prependPath adding the element at the end of the path
ErrAppendPath(e, pathElement) == ParseError(e.path \o <<pathElement>>, e.error)

\* ParseError.prependPath
ErrPrependPath(e, pathElement) == ParseError(<<pathElement>> \o e.path, e.error)

\* a ParseResult, or the exception that ended the evaluation
Success(value) == [kind |-> "Success", value |-> value, errors |-> <<>>]
ParseErrors(errors) == [kind |-> "ParseErrors", value |-> Undef, errors |-> errors]
Thrown == [kind |-> "TypeError", value |-> Undef, errors |-> <<>>]

\* ParseErrors.prependPath
PrependPath(r, pathElement) ==
    ParseErrors([i \in 1..Len(r.errors) |-> ErrPrependPath(r.errors[i], pathElement)])

\* x instanceof ParseErrors
IsParseErrors(r) == r.kind = "ParseErrors"

(***************************************************************************)
(* Parsers.  A parser is a record of the same shape for every class:       *)
(*   op    the class                                                       *)
(*   name  typeName of a TypeNarrowingParser, key of a ParseAt, the name   *)
(*         of the function of a CustomParser                               *)
(*   keys  Object.keys(parserDict) of a DictParser                         *)
(*   subs  the parsers the parser holds                                    *)
(***************************************************************************)
Prs(op, name, keys, subs) == [op |-> op, name |-> name, keys |-> keys, subs |-> subs]

TypeNarrowingParser(typeName) == Prs("TypeNarrowingParser", typeName, <<>>, <<>>)
CustomParser(f) == Prs("CustomParser", f, <<>>, <<>>)
Bind(p1, p2) == Prs("Bind", "", <<>>, <<p1, p2>>)
Map(p) == Prs("Map", "", <<>>, <<p>>)
ParseAt(key, p) == Prs("ParseAt", key, <<>>, <<p>>)
DictParser(keys, ps) == Prs("DictParser", "", keys, ps)
TransformFunctionResult(p) == Prs("TransformFunctionResult", "", <<>>, <<p>>)

\* SimpleDictParser.transformParserDict and the super(...) call
SimpleDictParser(keys, ps) ==
    DictParser(keys, [i \in 1..Len(keys) |-> ParseAt(keys[i], ps[i])])

\* namespace Parsers
asNull == TypeNarrowingParser("null")
asUndefined == TypeNarrowingParser("undefined")
asNumber == TypeNarrowingParser("number")
asString == TypeNarrowingParser("string")
asArray == TypeNarrowingParser("array")
asObject == TypeNarrowingParser("object")
asFunction == TypeNarrowingParser("function")
parseArray(p) == Bind(asArray, Map(p))
transformFunctionResult(resultP) == Bind(asFunction, TransformFunctionResult(resultP))

\* Parser.custom
Custom(p, f) == Bind(p, CustomParser(f))

\* the check function of each leaf of namespace Parsers
Check(typeName, x) ==
    CASE typeName = "null" -> x.t = "null"
      [] typeName = "undefined" -> x.t = "undefined"
      [] typeName = "number" -> Typeof(x) = "number"
      [] typeName = "string" -> Typeof(x) = "string"
      [] typeName = "array" -> IsArray(x)
      [] typeName = "object" -> Typeof(x) = "object"
      [] typeName = "function" -> Typeof(x) = "function"

(***************************************************************************)
(* What the caller supplies: the functions handed to Parser.custom and the *)
(* callables found in the input.                                           *)
(***************************************************************************)
\* f(x) for the function f of a CustomParser
ApplyCustom(f, x) ==
    CASE f = "positive" ->
           IF x.t = "number" /\ x.n > 0 THEN Success(x)
           ELSE ParseErrors(<<ParseError(<<>>, "expected a positive number")>>)
      [] f = "range" ->
           IF x.t = "number" /\ x.n = 1 THEN Success(x)
           ELSE ParseErrors(
                    (IF x.n < 1 THEN <<ParseError(<<Key("min")>>, "too small")>> ELSE <<>>)
                    \o <<ParseError(<<>>, "expected one")>>)
      [] f = "succ" -> Success(Num(x.n + 1))
      [] f = "lenient" ->
           IF x.t = "number" /\ x.n # 0 THEN Success(x) ELSE ParseErrors(<<>>)

\* input(...xs) for a callable of the input
ApplyFn(f, xs) ==
    CASE f.s = "five" -> Num(5)
      [] f.s = "fiveString" -> Str("5")
      [] f.s = "first" -> IF xs = <<>> THEN Undef ELSE xs[1]
      [] f.s = "count" -> Num(Len(xs))

(***************************************************************************)
(* Evaluation.  Every parse operator returns the ParseResult (out) and the *)
(* invocations it made (calls).                                            *)
(***************************************************************************)
Ev(out, calls) == [out |-> out, calls |-> calls]

\* p.parse(x) was entered
Called(p, x) == [e |-> "parse", p |-> <<p>>, x |-> x, args |-> <<>>]
\* the callable f of the input was called with the arguments xs
Invoked(f, xs) == [e |-> "call", p |-> <<>>, x |-> f, args |-> xs]

IsThrown(r) == r.kind = "TypeError"

RECURSIVE Parse(_, _)

\* TypeNarrowingParser.parse reporting the model's kind of x instead of typeof x
TypeNarrowingParseKind(p, x) ==
    IF Check(p.name, x)
    THEN Ev(Success(x), <<>>)
    ELSE Ev(ParseErrors(<<ParseError(<<>>,
                "expected " \o p.name \o " but got " \o x.t)>>), <<>>)

\* TypeNarrowingParser.parse
TypeNarrowingParse(p, x) ==
    IF Check(p.name, x)
    THEN Ev(Success(x), <<>>)
    ELSE Ev(ParseErrors(<<ParseError(<<>>,
                "expected " \o p.name \o " but got " \o Typeof(x))>>), <<>>)

\* CustomParser.parse, the function given to the constructor
CustomParse(p, x) == Ev(ApplyCustom(p.name, x), <<>>)

\* Bind.parse running the second stage although the first one failed
BindParseEager(p, input) ==
    LET x == Parse(p.subs[1], input) IN
    IF IsThrown(x.out) THEN x
    ELSE LET y == Parse(p.subs[2], x.out.value) IN
         IF IsParseErrors(x.out) THEN Ev(x.out, x.calls \o y.calls)
         ELSE Ev(y.out, x.calls \o y.calls)

\* Bind.parse
BindParse(p, input) ==
    LET x == Parse(p.subs[1], input) IN
    IF IsThrown(x.out) THEN x
    ELSE IF IsParseErrors(x.out) THEN x
    ELSE LET y == Parse(p.subs[2], x.out.value) IN Ev(y.out, x.calls \o y.calls)

\* the callback of inputs.forEach in Map.parse, from element i (1-based) on
RECURSIVE MapEach(_, _, _, _)
MapEach(p, inputs, i, acc) ==
    IF i > Len(inputs) \/ acc.thrown THEN acc
    ELSE LET res == Parse(p.subs[1], inputs[i])
             calls == acc.calls \o res.calls
         IN MapEach(p, inputs, i + 1,
                IF IsThrown(res.out)
                THEN [acc EXCEPT !.thrown = TRUE, !.calls = calls]
                ELSE IF IsParseErrors(res.out)
                THEN [acc EXCEPT !.errors = @ \o PrependPath(res.out, Idx(i - 1)).errors,
                                 !.calls = calls]
                ELSE [acc EXCEPT !.results = Append(@, res.out.value),
                                 !.calls = calls])

\* Map.parse
MapParse(p, inputs) ==
    IF ~IsArray(inputs) THEN Ev(Thrown, <<>>)
    ELSE LET acc == MapEach(p, inputs.items, 1,
                       [errors |-> <<>>, results |-> <<>>, calls |-> <<>>, thrown |-> FALSE])
         IN IF acc.thrown THEN Ev(Thrown, acc.calls)
            ELSE IF Len(acc.errors) # 0 THEN Ev(ParseErrors(acc.errors), acc.calls)
            ELSE Ev(Success(Arr(acc.results)), acc.calls)

\* ParseAt.parse handing the whole object to the field parser
ParseAtParseWhole(p, input) ==
    IF ~CanGet(input) THEN Ev(Thrown, <<>>)
    ELSE Parse(p.subs[1], input)

\* ParseAt.parse
ParseAtParse(p, input) ==
    IF ~CanGet(input) THEN Ev(Thrown, <<>>)
    ELSE Parse(p.subs[1], Get(input, p.name))

\* the callback of Object.keys(this.parserDict).forEach in DictParser.parse
RECURSIVE DictEach(_, _, _, _)
DictEach(p, input, i, acc) ==
    IF i > Len(p.keys) \/ acc.thrown THEN acc
    ELSE LET k == p.keys[i]
             x == Parse(p.subs[i], input)
             calls == acc.calls \o x.calls
         IN DictEach(p, input, i + 1,
                IF IsThrown(x.out)
                THEN [acc EXCEPT !.thrown = TRUE, !.calls = calls]
                ELSE IF IsParseErrors(x.out)
                THEN [acc EXCEPT !.errors = @ \o PrependPath(x.out, Key(k)).errors,
                                 !.calls = calls]
                ELSE [acc EXCEPT !.res = Put(@, k, x.out.value),
                                 !.calls = calls])

\* DictParser.parse
DictParse(p, input) ==
    LET acc == DictEach(p, input, 1,
                   [errors |-> <<>>, res |-> Obj(<<>>, <<>>), calls |-> <<>>, thrown |-> FALSE])
    IN IF acc.thrown THEN Ev(Thrown, acc.calls)
       ELSE IF Len(acc.errors) # 0 THEN Ev(ParseErrors(acc.errors), acc.calls)
       ELSE Ev(Success(acc.res), acc.calls)

\* TransformFunctionResult.parse
TransformFunctionResultParse(p, input) ==
    Ev(Success(Closure(p.subs[1], input)), <<>>)

\* parser.parse(input), dispatched on the class of the parser
Parse(p, input) ==
    LET r == CASE p.op = "TypeNarrowingParser" -> TypeNarrowingParse(p, input)
               [] p.op = "CustomParser" -> CustomParse(p, input)
               [] p.op = "Bind" -> BindParse(p, input)
               [] p.op = "Map" -> MapParse(p, input)
               [] p.op = "ParseAt" -> ParseAtParse(p, input)
               [] p.op = "DictParser" -> DictParse(p, input)
               [] p.op = "TransformFunctionResult" -> TransformFunctionResultParse(p, input)
    IN Ev(r.out, <<Called(p, input)>> \o r.calls)

\* the arrow function dropping its arguments
CallClosureNoArgs(g, xs) ==
    LET f == g.items[1]
        res == Parse(g.clo[1], ApplyFn(f, <<>>))
    IN Ev(res.out, <<Invoked(f, <<>>)>> \o res.calls)

\* g(...xs) for the arrow function g that TransformFunctionResult.parse returned
CallClosure(g, xs) ==
    LET f == g.items[1]
        res == Parse(g.clo[1], ApplyFn(f, xs))
    IN Ev(res.out, <<Invoked(f, xs)>> \o res.calls)

(***************************************************************************)
(* The parsers and inputs the model explores.                              *)
(***************************************************************************)
\* all sequences over S of length at most n
SeqsUpTo(S, n) == UNION {[1..k -> S] : k \in 0..n}

Leaves == {asNull, asUndefined, asNumber, asString, asArray, asObject, asFunction}

Callables == {Fn("five"), Fn("fiveString"), Fn("first"), Fn("count")}

Scalars == {Null, Undef, Num(0), Num(1), Str("x")}

\* property values of the objects, elements of the arrays
Members == {Num(0), Num(1), Str("x")}

\* objects with keys among a, b, c, in that insertion order
Objects ==
    {Obj(ks, vs) : <<ks, vs>> \in
        UNION {{ks} \X [1..Len(ks) -> Members] :
               ks \in {<<>>, <<"a">>, <<"b">>, <<"c">>, <<"a", "b">>, <<"a", "c">>,
                       <<"b", "c">>, <<"a", "b", "c">>}}}

Arrays == {Arr(items) : items \in SeqsUpTo(Members \cup {Null}, MaxLen)}

SomeValues ==
    Scalars \cup Callables
    \cup {Num(42), Arr(<<>>), Arr(<<Num(1)>>), Obj(<<>>, <<>>), Obj(<<"a">>, <<Num(1)>>)}

\* validators of one number
NumberParsers ==
    {asNumber, Custom(asNumber, "positive"), Custom(asNumber, "range"),
     Custom(asNumber, "succ"), Custom(asNumber, "lenient")}

BindParsers ==
    {Bind(p1, p2) : p1 \in Leaves \cup {Custom(asNumber, "range")},
                    p2 \in {asNumber, asObject, CustomParser("succ"), CustomParser("range"),
                            Map(asNumber)}}
    \cup {Bind(Bind(asArray, Map(asNumber)), Map(CustomParser("succ"))),
          Bind(asArray, Bind(Map(asNumber), Map(CustomParser("succ"))))}

ArrayParsers == {parseArray(p) : p \in NumberParsers \cup {asString}}

FieldParsers == {asNumber, asString, asUndefined, Custom(asNumber, "range"),
                 Custom(asNumber, "lenient")}

FieldLists == {<<"a">>, <<"b">>, <<"a", "b">>, <<"b", "a">>}

SimpleDictParsers ==
    {SimpleDictParser(ks, ps) : <<ks, ps>> \in
        UNION {{ks} \X [1..Len(ks) -> FieldParsers] : ks \in FieldLists}}

\* field validators of a DictParser, each given the whole object
WholeParsers == {asObject, asNumber, ParseAt("a", asNumber), ParseAt("b", asString),
                 ParseAt("a", Custom(asNumber, "range")),
                 ParseAt("a", Custom(asNumber, "lenient"))}

DictParsers ==
    {DictParser(ks, ps) : <<ks, ps>> \in
        UNION {{ks} \X [1..Len(ks) -> WholeParsers] : ks \in FieldLists}}

\* SimpleDictParser({list: parseArray(SimpleDictParser({x: asNumber}))}) and relatives
NestedParsers ==
    {SimpleDictParser(<<"list">>, <<parseArray(SimpleDictParser(<<"x">>, <<p>>))>>) :
        p \in {asNumber, Custom(asNumber, "range")}}
    \cup {parseArray(parseArray(p)) : p \in {asNumber, Custom(asNumber, "range")}}
    \cup {parseArray(SimpleDictParser(<<"x", "y">>, <<asNumber, asNumber>>))}

Points == {Obj(<<"x">>, <<Num(1)>>), Obj(<<"x">>, <<Str("bad")>>), Obj(<<>>, <<>>),
           Arr(<<Num(1)>>), Arr(<<Num(0), Str("x")>>), Null}

NestedInputs ==
    {Arr(items) : items \in SeqsUpTo(Points, MaxLen)}
    \cup {Obj(<<"list">>, <<Arr(items)>>) : items \in SeqsUpTo(Points, MaxLen)}

FunctionParsers ==
    {transformFunctionResult(p) : p \in {asNumber, asString, Custom(asNumber, "succ"),
                                         parseArray(asNumber)}}

ArgLists == SeqsUpTo({Num(1), Str("5"), Arr(<<Num(1), Num(0)>>)}, MaxArgs)

\* the scenarios of the documentation
Examples ==
    {<<SimpleDictParser(<<"a", "b">>, <<asNumber, asString>>),
       Obj(<<"a", "b">>, <<Str("x"), Num(5)>>)>>,
     <<SimpleDictParser(<<"a", "b">>, <<asNumber, asString>>),
       Obj(<<"a", "b", "c">>, <<Num(5), Str("x"), Null>>)>>,
     <<SimpleDictParser(<<"list">>, <<parseArray(SimpleDictParser(<<"x">>, <<asNumber>>))>>),
       Obj(<<"list">>, <<Arr(<<Obj(<<"x">>, <<Num(1)>>), Obj(<<"x">>, <<Str("bad")>>)>>)>>)>>}

Scenarios ==
    Examples
    \cup (Leaves \X SomeValues)
    \cup (NumberParsers \X SomeValues)
    \cup (BindParsers \X (SomeValues \cup {Arr(<<Num(1), Num(0)>>)}))
    \cup (ArrayParsers \X (Arrays \cup Scalars))
    \cup (SimpleDictParsers \X (Objects \cup SomeValues))
    \cup (DictParsers \X (Objects \cup SomeValues))
    \cup (NestedParsers \X NestedInputs)
    \cup (FunctionParsers \X SomeValues)

(***************************************************************************)
(* The state machine: a caller holds a parser and an input, applies the    *)
(* parser once, and calls the callable it got back, if it got one.         *)
(***************************************************************************)
VARIABLES parser, input, pc, out, calls, args, gout, gcalls

vars == <<parser, input, pc, out, calls, args, gout, gcalls>>

\* no result yet
NoResult == [kind |-> "none", value |-> Undef, errors |-> <<>>]

Init ==
    /\ \E sc \in Scenarios : parser = sc[1] /\ input = sc[2]
    /\ pc = "ready"
    /\ out = NoResult
    /\ calls = <<>>
    /\ args = <<>>
    /\ gout = NoResult
    /\ gcalls = <<>>

\* parser.parse(input)
DoParse ==
    /\ pc = "ready"
    /\ LET r == Parse(parser, input) IN out' = r.out /\ calls' = r.calls
    /\ pc' = "parsed"
    /\ UNCHANGED <<parser, input, args, gout, gcalls>>

\* is v the arrow function returned by TransformFunctionResult.parse
IsClosure(v) == v.t = "function" /\ v.clo # <<>>

\* out.value(...xs)
Invoke ==
    /\ pc \in {"parsed", "invoked"}
    /\ out.kind = "Success"
    /\ IsClosure(out.value)
    /\ \E xs \in ArgLists :
          LET r == CallClosure(out.value, xs)
          IN args' = xs /\ gout' = r.out /\ gcalls' = r.calls
    /\ pc' = "invoked"
    /\ UNCHANGED <<parser, input, out, calls>>

Next == DoParse \/ Invoke

Spec == Init /\ [][Next]_vars

(***************************************************************************)
(* Properties.                                                             *)
(***************************************************************************)
\* the concatenation of a sequence of sequences
RECURSIVE Flatten(_)
Flatten(ss) == IF ss = <<>> THEN <<>> ELSE Head(ss) \o Flatten(Tail(ss))

\* the elements of seq at the positions where keep is TRUE
RECURSIVE Pick(_, _)
Pick(seq, keep) ==
    IF seq = <<>> THEN <<>>
    ELSE (IF Head(keep) THEN <<Head(seq)>> ELSE <<>>) \o Pick(Tail(seq), Tail(keep))

\* the single error of a failing leaf
LeafError(typeName, got) ==
    ParseErrors(<<ParseError(<<>>, "expected " \o typeName \o " but got " \o got)>>)

IsSimpleDict(p) ==
    /\ p.op = "DictParser"
    /\ \A i \in 1..Len(p.keys) : p.subs[i].op = "ParseAt" /\ p.subs[i].name = p.keys[i]

IsParseArray(p) ==
    p.op = "Bind" /\ p.subs[1] = asArray /\ p.subs[2].op = "Map"

IsTransform(p) ==
    p.op = "Bind" /\ p.subs[1] = asFunction /\ p.subs[2].op = "TransformFunctionResult"

C3_LeafContract ==
    (pc # "ready" /\ parser \in Leaves) =>
        /\ IF Check(parser.name, input)
           THEN out = Success(input)
           ELSE out = LeafError(parser.name, Typeof(input))
        /\ (parser = asNull /\ input = Undef)
              => out = LeafError("null", "undefined")
        /\ (parser = asUndefined /\ input = Null)
              => out = LeafError("undefined", "object")
        /\ (parser = asNumber /\ input = Null)
              => out = LeafError("number", "object")
        /\ (parser = asNull /\ input = Null) => out = Success(Null)
        /\ (parser = asNumber /\ input = Num(42)) => out = Success(Num(42))

C3_Witness ==
    /\ pc = "parsed"
    /\ parser = asUndefined
    /\ input = Null
    /\ out = ParseErrors(<<ParseError(<<>>, "expected undefined but got object")>>)

\* C7: bind(v1, v2) returns the error set of v1 as it is and does not invoke
\* v2 when v1 fails, and returns v2.parse(y) when v1 succeeds with y.
C7_BindShortCircuit ==
    (pc # "ready" /\ parser.op = "Bind") =>
        LET r1 == Parse(parser.subs[1], input)
            r2 == Parse(parser.subs[2], r1.out.value)
        IN /\ IsParseErrors(r1.out) =>
                 /\ out = r1.out
                 /\ calls = <<Called(parser, input)>> \o r1.calls
           /\ r1.out.kind = "Success" =>
                 /\ out = r2.out
                 /\ calls = <<Called(parser, input)>> \o r1.calls \o r2.calls

C7_Witness ==
    /\ pc = "parsed"
    /\ parser = Bind(Custom(asNumber, "range"), asObject)
    /\ input = Num(0)
    /\ Len(out.errors) = 2

\* the paths of the errors the function f of a CustomParser reports for x
OwnPaths(f, x) ==
    LET r == ApplyCustom(f, x) IN {r.errors[i].path : i \in 1..Len(r.errors)}

\* does path name, root to leaf, the aggregation boundaries between the
\* parser p applied to x and a stage below it that fails: the field name at a
\* record, the index at an array, nothing at a bind or a key lookup, and at
\* the failing stage the path that stage reports itself (empty for a leaf)
RECURSIVE PathFits(_, _, _)
PathFits(p, x, path) ==
    CASE p.op = "TypeNarrowingParser" -> path = <<>> /\ ~Check(p.name, x)
      [] p.op = "CustomParser" -> path \in OwnPaths(p.name, x)
      [] p.op = "Bind" ->
           LET r1 == Parse(p.subs[1], x) IN
           IF IsParseErrors(r1.out) THEN PathFits(p.subs[1], x, path)
           ELSE r1.out.kind = "Success" /\ PathFits(p.subs[2], r1.out.value, path)
      [] p.op = "Map" ->
           /\ path # <<>>
           /\ \E i \in 1..Len(x.items) :
                 path[1] = Idx(i - 1) /\ PathFits(p.subs[1], x.items[i], Tail(path))
      [] p.op = "ParseAt" -> CanGet(x) /\ PathFits(p.subs[1], Get(x, p.name), path)
      [] p.op = "DictParser" ->
           /\ path # <<>>
           /\ \E i \in 1..Len(p.keys) :
                 path[1] = Key(p.keys[i]) /\ PathFits(p.subs[i], x, Tail(path))
      [] p.op = "TransformFunctionResult" -> FALSE

C10_TransformFunctionResult ==
    (pc # "ready" /\ IsTransform(parser)) =>
        LET R == parser.subs[2].subs[1] IN
        /\ Typeof(input) # "function" =>
              /\ out = LeafError("function", Typeof(input))
              /\ calls = <<Called(parser, input), Called(asFunction, input)>>
        /\ Typeof(input) = "function" =>
              /\ out.kind = "Success"
              /\ IsClosure(out.value)
              /\ out.value # input
              /\ \A i \in 1..Len(calls) : calls[i].e = "parse" /\ calls[i].p # <<R>>
        /\ pc = "invoked" =>
              /\ gcalls[1] = Invoked(input, args)
              /\ \A i \in 2..Len(gcalls) : gcalls[i].e = "parse"
              /\ gcalls[2] = Called(R, ApplyFn(input, args))
              /\ gout = Parse(R, ApplyFn(input, args)).out
              /\ (R = asNumber /\ input = Fn("five")) => gout = Success(Num(5))
              /\ (R = asNumber /\ input = Fn("fiveString"))
                    => gout = LeafError("number", "string")
              /\ (R = asNumber /\ input = Fn("first") /\ args = <<Str("5")>>)
                    => gout = LeafError("number", "string")

C10_Witness ==
    /\ pc = "invoked"
    /\ parser = transformFunctionResult(asNumber)
    /\ input = Fn("first")
    /\ args = <<Num(1)>>
    /\ gout = Success(Num(1))

\* the results of the element validator V on each element of an array
ElementRuns(V, items) == [i \in 1..Len(items) |-> Parse(V, items[i])]

\* C4: parseArray(V) applies V to every element in index order, and when
\* elements fail it returns the errors of the failing elements, in index
\* order, each with the index in front of its path, never a Success.  (Stated
\* for the element validators that return on every element.)
C4_ArrayAggregation ==
    (pc # "ready" /\ IsParseArray(parser) /\ IsArray(input)) =>
        LET V == parser.subs[2].subs[1]
            n == Len(input.items)
            rs == ElementRuns(V, input.items)
        IN (\A i \in 1..n : ~IsThrown(rs[i].out)) =>
           /\ calls = <<Called(parser, input), Called(asArray, input),
                        Called(parser.subs[2], input)>>
                      \o Flatten([i \in 1..n |-> rs[i].calls])
           /\ (\E i \in 1..n : IsParseErrors(rs[i].out)) =>
                 out = ParseErrors(Flatten([i \in 1..n |->
                          IF IsParseErrors(rs[i].out)
                          THEN PrependPath(rs[i].out, Idx(i - 1)).errors
                          ELSE <<>>]))

\* C5: when parseArray(V) succeeds on an array of length n, the value has
\* the n outputs of V in the order of the input, and parseArray(V) succeeds
\* exactly when no element fails.
C5_ArraySuccessOrdering ==
    (pc # "ready" /\ IsParseArray(parser) /\ IsArray(input)) =>
        LET V == parser.subs[2].subs[1]
            n == Len(input.items)
            rs == ElementRuns(V, input.items)
        IN (\A i \in 1..n : ~IsThrown(rs[i].out)) =>
           /\ out.kind = "Success" =>
                 /\ Len(out.value.items) = n
                 /\ out.value = Arr([i \in 1..n |-> rs[i].out.value])
           /\ out.kind = "Success" <=> \A i \in 1..n : rs[i].out.kind = "Success"

\* C6: parse returns either a Success or a ParseErrors with at least one
\* error.
C6_NonEmptyErrors ==
    /\ (pc # "ready" /\ ~IsThrown(out)) =>
          \/ out.kind = "Success"
          \/ out.kind = "ParseErrors" /\ out.errors # <<>>
    /\ (pc = "invoked" /\ ~IsThrown(gout)) =>
          \/ gout.kind = "Success"
          \/ gout.kind = "ParseErrors" /\ gout.errors # <<>>

====
